---- MODULE Spec2Model ----
(***************************************************************************)
(* A model of update_mods.py: one run of main(), from the catalog fetch    *)
(* to the manifest write.  The manifest (mod-packs.json) is a sequence of  *)
(* packs, the catalog is the API response, and every call that can fail   *)
(* (the two hops of download_mod, shutil.move, shutil.copy2, the manifest  *)
(* write) is a step whose outcome the environment chooses.                 *)
(***************************************************************************)
EXTENDS Integers, Sequences, FiniteSets, TLC

\* ------------------------------------------------------------------ bounds
\* Packs in the manifest, and Mod Entries in the whole manifest.
MaxPacks == 2
MaxEntries == 2
\* The same for the manifests find_updates alone is checked on.
DiffMaxPacks == 1
DiffMaxEntries == 1

\* ------------------------------------------------------- program constants
SYSTEM_MODS == {"base", "space-age", "quality", "elevated-rails"}

\* The redirect statuses download_mod accepts on the first hop.
RedirectStatuses == {301, 302, 303, 307, 308}

\* ------------------------------------------------------------ input domains
\* A version string "1.1.100" is the sequence of its dot-separated parts.
FullVersion == <<1, 1, 110>>
PackVersions == {<<1, 1, 100>>, <<1, 2, 0>>}
DiffPackVersions == {<<1, 1, 100>>, <<1, 2, 0>>, <<1, 1>>, <<1>>}

PackNames == <<"Default", "Second", "Third", "Fourth">>

Absent == "absent"      \* a pack without the key updated_at_ms
NowMs == "now_ms"       \* int(time.time() * 1000) of this run

ModEntry(n, v, s, e) == [name |-> n, version |-> v, sha1 |-> s, enabled |-> e]

\* Entries of the manifests a run starts from: stale, up to date, disabled,
\* of another package, of a system package.
Entries ==
    { ModEntry("a", "1.2.0", "aaa", TRUE),
      ModEntry("a", "1.3.0", "bbb", TRUE),
      ModEntry("a", "1.2.0", "aaa", FALSE),
      ModEntry("b", "1.2.0", "aaa", TRUE),
      ModEntry("base", "1.2.0", "aaa", TRUE) }

\* Entries of the manifests find_updates is checked on: every combination.
DiffEntries ==
    { ModEntry(n, v, s, e) : n \in {"a", "b", "base"}, v \in {"1.2.0", "1.3.0"},
                             s \in {"aaa", "bbb"}, e \in BOOLEAN }

Release(v, s, u, f) == [version |-> v, sha1 |-> s, download_url |-> u, file_name |-> f]
\* One element of the API's "results": latest_release is <<r>>, or <<>> when
\* the key is missing or null.
Result(n, rel) == [name |-> n, latest_release |-> rel]

Catalogs ==
    { << Result("a", <<Release("1.3.0", "bbb", "/dl/a", "a_1.3.0.zip")>>),
         Result("b", <<Release("1.3.0", "bbb", "/dl/b", "b_1.3.0.zip")>>),
         Result("base", <<Release("1.3.0", "bbb", "/dl/base", "base_1.3.0.zip")>>) >>,
      << Result("a", <<Release("1.3.0", "bbb", "/dl/a", "a_1.3.0.zip")>>),
         Result("b", <<Release("1.3.0", "bbb", "/dl/b", "a_1.3.0.zip")>>),
         Result("", <<Release("1.3.0", "bbb", "/dl/x", "x.zip")>>) >>,
      << Result("a", <<Release("1.3.0", "bbb", "/dl/a", "a_1.3.0.zip")>>),
         Result("b", <<>>),
         Result("base", <<Release("1.3.0", "bbb", "/dl/base", "base_1.3.0.zip")>>) >> }

FileNames == {"a_1.3.0.zip", "b_1.3.0.zip", "base_1.3.0.zip", "x.zip"}

\* ------------------------------------------------------------------ helpers
Range(s) == {s[i] : i \in 1..Len(s)}

\* Sequences over S of length n.
SeqN(S, n) == [1..n -> S]

\* All manifests of np packs, pack i named PackNames[i], with versions from
\* PV, entries from E and at most ne entries in all.
RECURSIVE Manifests(_, _, _, _, _)
Manifests(first, np, ne, PV, E) ==
    IF np = 0 THEN {<<>>}
    ELSE UNION { { <<[name |-> PackNames[first], factorio_version |-> fv,
                     mods |-> ms, updated_at_ms |-> Absent]>> \o rest :
                   fv \in PV, ms \in SeqN(E, k),
                   rest \in Manifests(first + 1, np - 1, ne - k, PV, E) } :
                 k \in 0..ne }

AllManifests(maxp, maxe, PV, E) ==
    UNION { Manifests(1, np, maxe, PV, E) : np \in 0..maxp }

\* --------------------------------------------------------- pure functions
\* ".".join(v.split(".")[:2]): the first two parts, or fewer when v has fewer.
MajorMinor(v) == SubSeq(v, 1, IF Len(v) < 2 THEN Len(v) ELSE 2)

\* get_factorio_version: parts[0].parts[1] of the version file's "version"
\* (validate_paths has checked that it has two parts at least).
get_factorio_version(full) == <<full[1], full[2]>>

\* build_mods_index: name -> latest_release for every result that has a
\* non-empty name and a latest_release; a later result replaces an earlier.
RECURSIVE build_mods_index(_)
build_mods_index(results) ==
    IF results = <<>> THEN <<>>
    ELSE LET mod == results[Len(results)]
             index == build_mods_index(SubSeq(results, 1, Len(results) - 1))
         IN  IF mod.name # "" /\ mod.latest_release # <<>>
             THEN (mod.name :> mod.latest_release[1]) @@ index
             ELSE index

\* mods_index.get(mod_name) is truthy.
InIndex(index, mod_name) == mod_name \in DOMAIN index

\* find_updates comparing the version alone.
ModNeedsUpdate_VersionOnly(mod, index) ==
    IF mod.name \in SYSTEM_MODS THEN FALSE
    ELSE IF ~mod.enabled THEN FALSE
    ELSE IF ~InIndex(index, mod.name) THEN FALSE
    ELSE mod.version # index[mod.name].version

\* The body of find_updates' inner loop for one entry: TRUE when it appends.
ModNeedsUpdate(mod, index) ==
    IF mod.name \in SYSTEM_MODS THEN FALSE
    ELSE IF ~mod.enabled THEN FALSE
    ELSE IF ~InIndex(index, mod.name) THEN FALSE
    ELSE mod.version # index[mod.name].version \/ mod.sha1 # index[mod.name].sha1

\* find_updates' outer test: the pack is of the target version.
PackMatches(pack, factorio_version) ==
    MajorMinor(pack.factorio_version) = factorio_version

\* The positions <<pack, mod>> at which find_updates appends, in its order:
\* packs p..Len(packs), and of pack p the mods m..Len(mods).
RECURSIVE UpdatePositions(_, _, _, _, _)
UpdatePositions(packs, index, factorio_version, p, m) ==
    IF p > Len(packs) THEN <<>>
    ELSE IF ~PackMatches(packs[p], factorio_version)
              \/ m > Len(packs[p].mods)
         THEN UpdatePositions(packs, index, factorio_version, p + 1, 1)
         ELSE (IF ModNeedsUpdate(packs[p].mods[m], index) THEN << <<p, m>> >> ELSE <<>>)
              \o UpdatePositions(packs, index, factorio_version, p, m + 1)

\* The dict find_updates appends for one entry.
PlanItem(pack, mod, latest) ==
    [pack_name |-> pack.name, mod_name |-> mod.name, old_version |-> mod.version,
     new_version |-> latest.version, new_sha1 |-> latest.sha1,
     download_url |-> latest.download_url, file_name |-> latest.file_name]

\* find_updates keeping only the first plan item of each package name.
find_updates_DedupByName(packs, index, factorio_version) ==
    LET pos == UpdatePositions(packs, index, factorio_version, 1, 1)
        NameAt(k) == packs[pos[k][1]].mods[pos[k][2]].name
        keep == {k \in 1..Len(pos) : \A j \in 1..(k - 1) : NameAt(j) # NameAt(k)}
        Kth(n) == CHOOSE k \in keep : Cardinality({j \in keep : j < k}) = n - 1
    IN  [n \in 1..Cardinality(keep) |->
            PlanItem(packs[pos[Kth(n)][1]], packs[pos[Kth(n)][1]].mods[pos[Kth(n)][2]],
                     index[NameAt(Kth(n))])]

find_updates(packs, index, factorio_version) ==
    LET pos == UpdatePositions(packs, index, factorio_version, 1, 1)
    IN  [i \in 1..Len(pos) |->
            PlanItem(packs[pos[i][1]], packs[pos[i][1]].mods[pos[i][2]],
                     index[packs[pos[i][1]].mods[pos[i][2]].name])]

\* apply_updates rewriting every entry once anything succeeded, whatever its name.
ApplyMod_AnyName(mod, successful) ==
    IF DOMAIN successful # {}
    THEN LET n == IF mod.name \in DOMAIN successful THEN mod.name
                  ELSE CHOOSE x \in DOMAIN successful : TRUE
         IN  [mod EXCEPT !.version = successful[n].new_version,
                         !.sha1 = successful[n].new_sha1]
    ELSE mod

\* apply_updates forgetting the sha1.
ApplyMod_VersionOnly(mod, successful) ==
    IF mod.name \in DOMAIN successful
    THEN [mod EXCEPT !.version = successful[mod.name].new_version]
    ELSE mod

\* apply_updates: the packs as it leaves them ...
ApplyMod(mod, successful) ==
    IF mod.name \in DOMAIN successful
    THEN [mod EXCEPT !.version = successful[mod.name].new_version,
                     !.sha1 = successful[mod.name].new_sha1]
    ELSE mod

PackChanged(pack, successful) ==
    \E m \in 1..Len(pack.mods) : pack.mods[m].name \in DOMAIN successful

ApplyPack(pack, successful) ==
    [pack EXCEPT !.mods = [m \in 1..Len(pack.mods) |-> ApplyMod(pack.mods[m], successful)],
                 !.updated_at_ms = IF PackChanged(pack, successful) THEN NowMs ELSE @]

apply_updates(packs, successful) ==
    [p \in 1..Len(packs) |-> ApplyPack(packs[p], successful)]

\* ... and the number it returns.
updated_packs(packs, successful) ==
    Cardinality({p \in 1..Len(packs) : PackChanged(packs[p], successful)})

\* ------------------------------------------------------------------ strings
\* A URL or a log message is the sequence of the pieces it is formatted from.
username == "alice"     \* config["username"]
token == "s3cr3t"       \* config["token"]

\* str.replace(old, new), piece by piece.
Replace(str, old, new) == [k \in 1..Len(str) |-> IF str[k] = old THEN new ELSE str[k]]

\* download_mod, line 146: the first hop's URL.
FirstHopUrl(download_url) ==
    <<"https://mods.factorio.com", download_url, "?username=", username, "&token=", token>>

\* The signed URL the catalog host answers for a file.
CdnUrl(file_name) == <<"https://dl-mod.factorio.com/", file_name, "?secure=", "sig">>

LogRecord(level, msg) == [level |-> level, msg |-> msg]

\* download_mod, lines 148-149: the records logged before the first request.
StartRecords(u) ==
    { LogRecord("INFO", <<"[download] Starting: ", u.file_name>>),
      LogRecord("DEBUG", <<"[download] URL: ">>
                            \o Replace(FirstHopUrl(u.download_url), token, "***")) }

\* download_mod, line 171.
RedirectRecord(status, real_url) ==
    LogRecord("INFO", <<"[download] Redirect ", ToString(status), " -> ">> \o real_url)

\* -------------------------------------------------------------------- state
VARIABLES
    pc,                 \* where main() is
    disk,               \* the manifest file's contents
    disk0,              \* the manifest file's contents when the run started
    packs,              \* main's packs: the manifest in memory
    mods_index,         \* main's mods_index
    updates,            \* main's updates: the plan
    i,                  \* the download loop's position in updates
    successful,         \* main's successful: mod_name -> plan item
    downloaded_files,   \* main's downloaded_files: its keys, in insertion order
    tmp_dir,            \* the scratch directory: "none", "exists", "removed"
    tmp_files,          \* files in the scratch directory: name -> "partial" | "full"
    mods_dir,           \* files this run has moved into the live directory
    archive,            \* <<contents>> of the archive file this run made, or <<>>
    mv,                 \* the move loop's position in downloaded_files
    after,              \* how the try block was left: "fall", "return", "raise"
    raised,             \* <<class, function>> of the exception leaving main, or <<>>
    attempts,           \* file_name -> number of download_mod calls so far
    last,               \* how the latest download_mod call ended: "none" before the
                        \* first, "ok", or the class of the exception it raised
    first,              \* <<status, Location>> of the first hop's answer, until the
                        \* step after it; Location is <<url>> or <<>>
    cdn_requests,       \* the URLs of the second requests made, in order
    log                 \* the log records that carry a URL or a file name

vars == <<pc, disk, disk0, packs, mods_index, updates, i, successful, downloaded_files,
          tmp_dir, tmp_files, mods_dir, archive, mv, after, raised, attempts, last,
          first, cdn_requests, log>>

factorio_version == get_factorio_version(FullVersion)

\* The loop's except clause without RuntimeError.
CaughtByLoop_NoRuntimeError == {"URLError", "HTTPError", "OSError"}

\* The exception classes main's download loop catches (HTTPError is a URLError).
CaughtByLoop == {"URLError", "HTTPError", "OSError", "RuntimeError"}

InitWith(manifests) ==
    /\ disk \in manifests
    /\ disk0 = disk
    /\ pc = "fetch"
    /\ packs = <<>>
    /\ mods_index = <<>>
    /\ updates = <<>>
    /\ i = 1
    /\ successful = <<>>
    /\ downloaded_files = <<>>
    /\ tmp_dir = "none"
    /\ tmp_files = <<>>
    /\ mods_dir = {}
    /\ archive = <<>>
    /\ mv = 1
    /\ after = "fall"
    /\ raised = <<>>
    /\ attempts = [f \in FileNames |-> 0]
    /\ last = "none"
    /\ first = <<>>
    /\ cdn_requests = <<>>
    /\ log = {}

Init == InitWith(AllManifests(MaxPacks, MaxEntries, PackVersions, Entries))

InitDiff == InitWith(AllManifests(DiffMaxPacks, DiffMaxEntries, DiffPackVersions, DiffEntries))

\* ------------------------------------------------------------------ actions
\* A failed fetch logged, and the run carried on with an empty catalog.
Fetch_FailureContinues ==
    /\ pc = "fetch"
    /\ \/ \E results \in Catalogs :
             /\ mods_index' = build_mods_index(results)
             /\ raised' = raised
       \/ /\ raised' = <<"URLError", "fetch_mods_list">>
          /\ mods_index' = mods_index
    /\ pc' = "plan"
    /\ UNCHANGED <<log, first, cdn_requests, disk, disk0, packs, updates, i, successful,
                   downloaded_files, tmp_dir, tmp_files, mods_dir, archive, mv, after,
                   attempts, last>>

\* main, lines 276-277: fetch_mods_list and build_mods_index.  A failed fetch
\* raises out of main.
Fetch ==
    /\ pc = "fetch"
    /\ \/ \E results \in Catalogs :
             /\ mods_index' = build_mods_index(results)
             /\ pc' = "plan"
             /\ raised' = raised
       \/ /\ raised' = <<"URLError", "fetch_mods_list">>
          /\ pc' = "error"
          /\ mods_index' = mods_index
    /\ UNCHANGED <<log, first, cdn_requests, disk, disk0, packs, updates, i, successful, downloaded_files, tmp_dir,
                   tmp_files, mods_dir, archive, mv, after, attempts, last>>

\* main, lines 280-293: load the manifest, compute the plan, return when it
\* is empty, else make the scratch directory.
Plan ==
    /\ pc = "plan"
    /\ packs' = disk
    /\ updates' = find_updates(disk, mods_index, factorio_version)
    /\ IF updates' = <<>>
       THEN pc' = "done" /\ tmp_dir' = tmp_dir
       ELSE pc' = "loop" /\ tmp_dir' = "exists"
    /\ UNCHANGED <<log, first, cdn_requests, disk, disk0, mods_index, i, successful, downloaded_files, tmp_files,
                   mods_dir, archive, mv, after, raised, attempts, last>>

\* What an exception raised by download_mod does in main's loop (lines
\* 309-311): caught, the loop continues with the next item; not caught, it
\* leaves the try block.
Except(exc) ==
    /\ last' = exc
    /\ IF exc \in CaughtByLoop
       THEN pc' = "loop" /\ i' = i + 1 /\ after' = after /\ raised' = raised
       ELSE pc' = "finally" /\ i' = i /\ after' = "raise"
            /\ raised' = <<exc, "download_mod">>

\* main, lines 301-307 and 313-314: the next plan item.  A file name that is
\* not in downloaded_files calls download_mod; one that is there marks the
\* item's mod successful.
LoopItem ==
    /\ pc = "loop"
    /\ i <= Len(updates)
    /\ LET u == updates[i] IN
         IF u.file_name \notin Range(downloaded_files)
         THEN /\ pc' = "hop1"
              /\ log' = log \cup StartRecords(u)
              /\ attempts' = [attempts EXCEPT ![u.file_name] = @ + 1]
              /\ UNCHANGED <<i, successful>>
         ELSE /\ successful' = (u.mod_name :> u) @@ successful
              /\ i' = i + 1
              /\ UNCHANGED <<pc, attempts, log>>
    /\ first' = <<>>
    /\ UNCHANGED <<cdn_requests, disk, disk0, packs, mods_index, updates, downloaded_files, tmp_dir,
                   tmp_files, mods_dir, archive, mv, after, raised, last>>

\* The first request's HTTPError followed whenever it has a Location, the
\* status not looked at.
Hop1_AnyStatusWithLocation ==
    /\ pc = "hop1"
    /\ \/ \E status \in {200, 302, 404}, has_location \in BOOLEAN :
             LET location == IF has_location THEN <<CdnUrl(updates[i].file_name)>> ELSE <<>>
             IN  /\ first' = <<status, location>>
                 /\ IF status = 200
                    THEN Except("RuntimeError") /\ log' = log
                    ELSE IF status \in RedirectStatuses \/ location # <<>>
                         THEN IF location # <<>>
                              THEN /\ pc' = "hop2"
                                   /\ log' = log \cup {RedirectRecord(status, location[1])}
                                   /\ UNCHANGED <<i, after, raised, last>>
                              ELSE Except("RuntimeError") /\ log' = log
                         ELSE Except("HTTPError") /\ log' = log
       \/ /\ \E exc \in {"URLError", "HTTPException"} : Except(exc)
          /\ first' = <<>>
          /\ log' = log
    /\ UNCHANGED <<cdn_requests, disk, disk0, packs, mods_index, updates, successful,
                   downloaded_files, tmp_dir, tmp_files, mods_dir, archive, mv, attempts>>

\* download_mod, lines 152-177: the first request, redirects not followed.
\* A 2xx answer, a redirect without Location and any other status raise.
Hop1 ==
    /\ pc = "hop1"
    /\ \/ \E status \in {200, 302, 404}, has_location \in BOOLEAN :
             LET location == IF has_location THEN <<CdnUrl(updates[i].file_name)>> ELSE <<>>
             IN  /\ first' = <<status, location>>
                 /\ IF status = 200
                    THEN Except("RuntimeError") /\ log' = log
                    ELSE IF status \in RedirectStatuses
                         THEN IF location # <<>>
                              THEN /\ pc' = "hop2"
                                   /\ log' = log \cup {RedirectRecord(status, location[1])}
                                   /\ UNCHANGED <<i, after, raised, last>>
                              ELSE Except("RuntimeError") /\ log' = log
                         ELSE Except("HTTPError") /\ log' = log
       \/ /\ \E exc \in {"URLError", "HTTPException"} : Except(exc)
          /\ first' = <<>>
          /\ log' = log
    /\ UNCHANGED <<cdn_requests, disk, disk0, packs, mods_index, updates, successful,
                   downloaded_files, tmp_dir, tmp_files, mods_dir, archive, mv, attempts>>

\* The second request recording the file as downloaded as soon as the
\* destination is opened, before the body is copied.
Hop2_RecordsBeforeDone ==
    /\ pc = "hop2"
    /\ LET u == updates[i] IN
         \/ /\ tmp_files' = (u.file_name :> "full") @@ tmp_files
            /\ downloaded_files' = Append(downloaded_files, u.file_name)
            /\ successful' = (u.mod_name :> u) @@ successful
            /\ last' = "ok"
            /\ pc' = "loop"
            /\ i' = i + 1
            /\ UNCHANGED <<after, raised>>
         \/ /\ Except("HTTPError")
            /\ UNCHANGED <<tmp_files, downloaded_files, successful>>
         \/ /\ \E exc \in {"OSError", "HTTPException"} : Except(exc)
            /\ tmp_files' = (u.file_name :> "partial") @@ tmp_files
            /\ downloaded_files' = Append(downloaded_files, u.file_name)
            /\ UNCHANGED successful
    /\ cdn_requests' = Append(cdn_requests, first[2][1])
    /\ first' = <<>>
    /\ UNCHANGED <<log, disk, disk0, packs, mods_index, updates, tmp_dir, mods_dir, archive, mv,
                   attempts>>

\* download_mod, lines 180-198, and main, lines 308 and 313-314: the second
\* request streams the body into the scratch directory.  An error while
\* streaming leaves what was written so far.
Hop2 ==
    /\ pc = "hop2"
    /\ LET u == updates[i] IN
         \/ /\ tmp_files' = (u.file_name :> "full") @@ tmp_files
            /\ downloaded_files' = Append(downloaded_files, u.file_name)
            /\ successful' = (u.mod_name :> u) @@ successful
            /\ last' = "ok"
            /\ pc' = "loop"
            /\ i' = i + 1
            /\ UNCHANGED <<after, raised>>
         \/ /\ Except("HTTPError")
            /\ UNCHANGED <<tmp_files, downloaded_files, successful>>
         \/ /\ \E exc \in {"OSError", "HTTPException"} : Except(exc)
            /\ tmp_files' = (u.file_name :> "partial") @@ tmp_files
            /\ UNCHANGED <<downloaded_files, successful>>
    /\ cdn_requests' = Append(cdn_requests, first[2][1])
    /\ first' = <<>>
    /\ UNCHANGED <<log, disk, disk0, packs, mods_index, updates, tmp_dir, mods_dir, archive, mv,
                   attempts>>

\* The loop's end without the test of successful.
LoopEnd_NoEmptyCheck ==
    /\ pc = "loop"
    /\ i > Len(updates)
    /\ pc' = "move"
    /\ first' = <<>>
    /\ UNCHANGED <<log, cdn_requests, disk, disk0, packs, mods_index, updates, i, successful, downloaded_files,
                   tmp_dir, tmp_files, mods_dir, archive, mv, after, raised, attempts, last>>

\* main, lines 316-318: after the loop, return when nothing succeeded.
LoopEnd ==
    /\ pc = "loop"
    /\ i > Len(updates)
    /\ IF DOMAIN successful = {}
       THEN pc' = "finally" /\ after' = "return"
       ELSE pc' = "move" /\ after' = after
    /\ first' = <<>>
    /\ UNCHANGED <<log, cdn_requests, disk, disk0, packs, mods_index, updates, i, successful, downloaded_files,
                   tmp_dir, tmp_files, mods_dir, archive, mv, raised, attempts, last>>

\* A failed move caught in the loop, which goes on to the next file.
Move_FailureSkipped ==
    /\ pc = "move"
    /\ IF mv > Len(downloaded_files)
       THEN /\ pc' = "finally"
            /\ UNCHANGED <<mv, tmp_files, mods_dir, after, raised>>
       ELSE \/ /\ mods_dir' = mods_dir \cup {downloaded_files[mv]}
               /\ tmp_files' = [f \in DOMAIN tmp_files \ {downloaded_files[mv]} |->
                                   tmp_files[f]]
               /\ mv' = mv + 1
               /\ UNCHANGED <<pc, after, raised>>
            \/ /\ mv' = mv + 1
               /\ UNCHANGED <<pc, after, raised, tmp_files, mods_dir>>
    /\ UNCHANGED <<log, first, cdn_requests, disk, disk0, packs, mods_index, updates, i,
                   successful, downloaded_files, tmp_dir, archive, attempts, last>>

\* The move loop outside the try block: a failed move skips the cleanup.
Move_NoCleanup ==
    /\ pc = "move"
    /\ IF mv > Len(downloaded_files)
       THEN /\ pc' = "finally"
            /\ UNCHANGED <<mv, tmp_files, mods_dir, after, raised>>
       ELSE \/ /\ mods_dir' = mods_dir \cup {downloaded_files[mv]}
               /\ tmp_files' = [f \in DOMAIN tmp_files \ {downloaded_files[mv]} |->
                                   tmp_files[f]]
               /\ mv' = mv + 1
               /\ UNCHANGED <<pc, after, raised>>
            \/ /\ pc' = "error"
               /\ after' = "raise"
               /\ raised' = <<"OSError", "shutil.move">>
               /\ UNCHANGED <<mv, tmp_files, mods_dir>>
    /\ UNCHANGED <<log, first, cdn_requests, disk, disk0, packs, mods_index, updates, i, successful, downloaded_files,
                   tmp_dir, archive, attempts, last>>

\* main, lines 321-324: move the next downloaded file into mods_dir; a
\* failed move raises.
Move ==
    /\ pc = "move"
    /\ IF mv > Len(downloaded_files)
       THEN /\ pc' = "finally"
            /\ UNCHANGED <<mv, tmp_files, mods_dir, after, raised>>
       ELSE \/ /\ mods_dir' = mods_dir \cup {downloaded_files[mv]}
               /\ tmp_files' = [f \in DOMAIN tmp_files \ {downloaded_files[mv]} |->
                                   tmp_files[f]]
               /\ mv' = mv + 1
               /\ UNCHANGED <<pc, after, raised>>
            \/ /\ pc' = "finally"
               /\ after' = "raise"
               /\ raised' = <<"OSError", "shutil.move">>
               /\ UNCHANGED <<mv, tmp_files, mods_dir>>
    /\ UNCHANGED <<log, first, cdn_requests, disk, disk0, packs, mods_index, updates, i, successful, downloaded_files,
                   tmp_dir, archive, attempts, last>>

\* main, lines 326-327: the finally clause removes the scratch directory,
\* then main returns, re-raises or goes on.
Finally ==
    /\ pc = "finally"
    /\ tmp_dir' = "removed"
    /\ tmp_files' = <<>>
    /\ pc' = CASE after = "return" -> "done"
               [] after = "raise" -> "error"
               [] OTHER -> "archive"
    /\ first' = <<>>
    /\ UNCHANGED <<log, cdn_requests, disk, disk0, packs, mods_index, updates, i, successful, downloaded_files,
                   mods_dir, archive, mv, after, raised, attempts, last>>

\* The archive taken after apply_updates and the write, from what was written.
Archive_AfterApply ==
    /\ pc = "archive"
    /\ \/ /\ archive' = <<apply_updates(packs, successful)>>
          /\ pc' = "save"
          /\ raised' = raised
       \/ /\ raised' = <<"OSError", "archive_mod_packs">>
          /\ pc' = "error"
          /\ archive' = archive
    /\ UNCHANGED <<log, first, cdn_requests, disk, disk0, packs, mods_index, updates, i, successful, downloaded_files,
                   tmp_dir, tmp_files, mods_dir, mv, after, attempts, last>>

\* The archive's failure logged and the commit carried on.
Archive_FailureIgnored ==
    /\ pc = "archive"
    /\ \/ /\ archive' = <<disk>>
          /\ raised' = raised
       \/ /\ raised' = <<"OSError", "archive_mod_packs">>
          /\ archive' = archive
    /\ pc' = "save"
    /\ UNCHANGED <<log, first, cdn_requests, disk, disk0, packs, mods_index, updates, i, successful, downloaded_files,
                   tmp_dir, tmp_files, mods_dir, mv, after, attempts, last>>

\* main, line 330: archive_mod_packs copies the manifest file; a failed copy
\* raises.
Archive ==
    /\ pc = "archive"
    /\ \/ /\ archive' = <<disk>>
          /\ pc' = "save"
          /\ raised' = raised
       \/ /\ raised' = <<"OSError", "archive_mod_packs">>
          /\ pc' = "error"
          /\ archive' = archive
    /\ UNCHANGED <<log, first, cdn_requests, disk, disk0, packs, mods_index, updates, i, successful, downloaded_files,
                   tmp_dir, tmp_files, mods_dir, mv, after, attempts, last>>

\* main, lines 331-332: apply_updates changes the packs in memory and
\* save_mod_packs writes them; a write that cannot open the file raises.
Save ==
    /\ pc = "save"
    /\ packs' = apply_updates(packs, successful)
    /\ \/ /\ disk' = packs'
          /\ pc' = "done"
          /\ raised' = raised
       \/ /\ raised' = <<"OSError", "save_mod_packs">>
          /\ pc' = "error"
          /\ disk' = disk
    /\ UNCHANGED <<log, first, cdn_requests, disk0, mods_index, updates, i, successful,
                   downloaded_files, tmp_dir,
                   tmp_files, mods_dir, archive, mv, after, attempts, last>>

Next ==
    \/ Fetch
    \/ Plan
    \/ LoopItem
    \/ Hop1
    \/ Hop2
    \/ LoopEnd
    \/ Move
    \/ Finally
    \/ Archive
    \/ Save

Spec == Init /\ [][Next]_vars

\* find_updates alone, on every kind of entry.
NextDiff ==
    \/ Fetch
    \/ Plan

SpecDiff == InitDiff /\ [][NextDiff]_vars

\* find_updates alone, on the manifests of the whole runs.
SpecPlan == Init /\ [][NextDiff]_vars

\* ------------------------------------------------------------------- claims
Ended == pc \in {"done", "error"}

\* The entry at position m of pack p of the manifest the run started from.
EntryAt(p, m) == disk0[p].mods[m]

EntryPositions ==
    UNION { {<<p, m>> : m \in 1..Len(disk0[p].mods)} : p \in 1..Len(disk0) }

\* The conditions the specification gives for an entry to be in the plan.
Eligible(p, m) ==
    /\ Len(disk0[p].factorio_version) >= 2
    /\ disk0[p].factorio_version[1] = factorio_version[1]
    /\ disk0[p].factorio_version[2] = factorio_version[2]
    /\ EntryAt(p, m).enabled
    /\ EntryAt(p, m).name \notin SYSTEM_MODS
    /\ EntryAt(p, m).name \in DOMAIN mods_index
    /\ <<EntryAt(p, m).version, EntryAt(p, m).sha1>>
         # <<mods_index[EntryAt(p, m).name].version, mods_index[EntryAt(p, m).name].sha1>>

Planned == pc \notin {"fetch", "plan"} /\ (pc = "error" => raised[2] # "fetch_mods_list")

\* C1: find_updates returns a plan item for a Mod Entry if and only if its
\* pack's major.minor equals the target, it is enabled, it is no system
\* package, its name is in the catalog index and its (version, sha1) differs
\* from the catalog's latest: the plan has one item per such entry, made of
\* that entry and of the catalog's latest release of it, and no other item.
C1_PlanIffEligible ==
    Planned =>
        LET pos == UpdatePositions(disk0, mods_index, factorio_version, 1, 1)
        IN  /\ Len(updates) = Len(pos)
            /\ \A q \in EntryPositions :
                   Eligible(q[1], q[2]) <=> (\E k \in 1..Len(pos) : pos[k] = q)
            /\ \A k \in 1..Len(pos) :
                   /\ pos[k] \in EntryPositions
                   /\ \A j \in 1..Len(pos) : pos[j] = pos[k] => j = k
                   /\ updates[k].pack_name = disk0[pos[k][1]].name
                   /\ updates[k].mod_name = EntryAt(pos[k][1], pos[k][2]).name
                   /\ updates[k].old_version = EntryAt(pos[k][1], pos[k][2]).version
                   /\ updates[k].new_version = mods_index[updates[k].mod_name].version
                   /\ updates[k].new_sha1 = mods_index[updates[k].mod_name].sha1

\* An entry whose version is the catalog's and whose sha1 is not is planned.
C1_Witness ==
    /\ Planned
    /\ Len(updates) = 1
    /\ \E q \in EntryPositions :
          /\ Eligible(q[1], q[2])
          /\ EntryAt(q[1], q[2]).version = mods_index[EntryAt(q[1], q[2]).name].version
          /\ EntryAt(q[1], q[2]).sha1 # mods_index[EntryAt(q[1], q[2]).name].sha1

\* C2: the manifest file is written only after an archive copy of it has been
\* made in the same run, and the archive holds the manifest file's contents
\* as they were before the write, not the packs apply_updates changed.
C2_ArchiveBeforeWrite ==
    [][(disk' # disk \/ (pc = "save" /\ pc' = "done"))
           => /\ archive # <<>>
              /\ archive[1] = disk
              /\ archive' = archive]_vars

C2_Witness ==
    /\ pc = "done"
    /\ disk # disk0
    /\ archive = <<disk0>>

\* The manifest file records, for some entry of package n, another version or
\* sha1 than when the run started.
ManifestUpdated(n) ==
    \E p \in 1..Len(disk0) : \E m \in 1..Len(disk0[p].mods) :
        /\ disk0[p].mods[m].name = n
        /\ \/ disk[p].mods[m].version # disk0[p].mods[m].version
           \/ disk[p].mods[m].sha1 # disk0[p].mods[m].sha1

\* The artifact of a plan item of package n is in the live directory.
ArtifactPlaced(n) ==
    \E k \in 1..Len(updates) :
        updates[k].mod_name = n /\ updates[k].file_name \in mods_dir

PlanNames == {updates[k].mod_name : k \in 1..Len(updates)}

\* C3: at the end of every run, also one in which a move, the archive copy or
\* the manifest write failed, the manifest file has a package's version/sha1
\* updated if and only if the package's artifact was placed into the live
\* directory during the run.
C3_UpdatedIffPlaced ==
    Ended => \A n \in PlanNames : ManifestUpdated(n) <=> ArtifactPlaced(n)

\* C4: each distinct file_name gets exactly one download attempt in a run: a
\* later plan item of the same file_name never calls download_mod again,
\* whether the first attempt succeeded or failed.
C4_OneAttemptPerFile ==
    \A f \in FileNames : attempts[f] <= 1

LoopOver == pc \in {"move", "finally", "archive", "save", "done", "error"}
                /\ i > Len(updates)

\* C5: after the download loop, two plan items that share a file_name have
\* both their package names in the success set or neither.
C5_SharedFileSharedOutcome ==
    LoopOver =>
        \A j \in 1..Len(updates), k \in 1..Len(updates) :
            updates[j].file_name = updates[k].file_name
                => (updates[j].mod_name \in DOMAIN successful
                        <=> updates[k].mod_name \in DOMAIN successful)

\* C6: when the success set is empty at the end of the download phase (the
\* plan is empty or every attempt failed), the run ends with no archive file
\* made, the manifest file not written and nothing moved into the live
\* directory.
C6_EmptySuccessNoCommit ==
    (DOMAIN successful = {} /\ (Ended \/ LoopOver))
        => /\ archive = <<>>
           /\ disk = disk0
           /\ mods_dir = {}
           /\ pc \notin {"move", "archive", "save"}

\* Every download of a non-empty plan failed and the run has returned.
C6_Witness ==
    /\ pc = "done"
    /\ updates # <<>>
    /\ DOMAIN successful = {}
    /\ \E f \in FileNames : attempts[f] > 0

CommitCompleted == pc = "done" /\ archive # <<>>

\* C7: after a commit that completes, every Mod Entry of the written manifest
\* whose name is in the success set has the version and sha1 of the
\* catalog's latest release, and its pack has updated_at_ms set.
C7_CommittedEntriesAreLatest ==
    CommitCompleted =>
        \A p \in 1..Len(disk) : \A m \in 1..Len(disk[p].mods) :
            disk[p].mods[m].name \in DOMAIN successful
                => /\ disk[p].mods[m].version = mods_index[disk[p].mods[m].name].version
                   /\ disk[p].mods[m].sha1 = mods_index[disk[p].mods[m].name].sha1
                   /\ disk[p].updated_at_ms = NowMs

\* A committed run that rewrote an entry find_updates had not planned (one
\* that is disabled or in a pack of another version).
C7_Witness ==
    /\ CommitCompleted
    /\ \E p \in 1..Len(disk) : \E m \in 1..Len(disk[p].mods) :
          /\ disk[p].mods[m].name \in DOMAIN successful
          /\ disk[p].mods[m] # disk0[p].mods[m]
          /\ ~Eligible(p, m)

\* The failures of download_mod the claim names: an HTTP error on either hop
\* (HTTPError), a first answer that is no redirect and a redirect without
\* Location (both RuntimeError).
NamedFailures == {"HTTPError", "RuntimeError"}

\* C8: a failed download attempt fails that artifact alone: the loop goes on
\* with the next plan item and nothing else changes; no run ends in error
\* because of such a failure; and a run in which an artifact succeeded, and
\* whose moves, archive and write succeed, has moved every downloaded file,
\* archived and written the manifest and ended without error.
C8_FailedDownloadIsSkipped ==
    /\ [][(pc \in {"hop1", "hop2"} /\ pc' # "hop2" /\ last' \in NamedFailures)
             => /\ pc' = "loop"
                /\ i' = i + 1
                /\ raised' = <<>>
                /\ successful' = successful
                /\ downloaded_files' = downloaded_files
                /\ mods_dir' = mods_dir
                /\ disk' = disk]_vars
    /\ [](pc = "error" => raised # <<>> /\ raised[1] \notin NamedFailures)
    /\ []((pc = "done" /\ DOMAIN successful # {})
             => /\ raised = <<>>
                /\ mods_dir = Range(downloaded_files)
                /\ archive = <<disk0>>
                /\ disk = apply_updates(disk0, successful))

\* The latest attempt failed as the claim names, an earlier one had
\* succeeded, and the run committed.
C8_Witness ==
    /\ pc = "done"
    /\ last \in NamedFailures
    /\ DOMAIN successful # {}
    /\ disk # disk0

\* C9: when the archive copy fails, the run ends in error and the manifest
\* file is not written: its contents stay those of before the run.
C9_ArchiveFailureAborts ==
    (raised # <<>> /\ raised[2] = "archive_mod_packs")
        => /\ pc = "error"
           /\ disk = disk0
           /\ archive = <<>>

C9_Witness ==
    /\ pc = "error"
    /\ raised = <<"OSError", "archive_mod_packs">>
    /\ mods_dir # {}

C11_NoCredentialInLog ==
    \A rec \in log : username \notin Range(rec.msg) /\ token \notin Range(rec.msg)

FetchFailed == raised # <<>> /\ raised[2] = "fetch_mods_list"

\* C12: when the catalog fetch fails the run ends in error before the diff:
\* no plan, no download attempt, no scratch directory, no archive, and the
\* manifest file and the live directory as they were.
C12_FetchFailureIsFatal ==
    FetchFailed
        => /\ pc = "error"
           /\ packs = <<>>
           /\ updates = <<>>
           /\ \A f \in FileNames : attempts[f] = 0
           /\ cdn_requests = <<>>
           /\ tmp_dir = "none"
           /\ archive = <<>>
           /\ disk = disk0
           /\ mods_dir = {}

\* The fetch failed over a manifest that has a stale entry to update.
C12_Witness ==
    /\ FetchFailed
    /\ pc = "error"
    /\ \E p \in 1..Len(disk) : \E m \in 1..Len(disk[p].mods) :
          disk[p].mods[m] = ModEntry("a", "1.2.0", "aaa", TRUE)

\* C13: a Mod Entry whose name is not in the catalog index never yields a
\* plan item, and the manifest file keeps its version and sha1, whatever
\* else the run updates.
C13_AbsentFromCatalogUntouched ==
    Planned =>
        \A q \in EntryPositions :
            EntryAt(q[1], q[2]).name \notin DOMAIN mods_index
                => /\ \A k \in 1..Len(updates) : updates[k].mod_name # EntryAt(q[1], q[2]).name
                   /\ disk[q[1]].mods[q[2]].version = EntryAt(q[1], q[2]).version
                   /\ disk[q[1]].mods[q[2]].sha1 = EntryAt(q[1], q[2]).sha1

\* A committed run over a manifest with an enabled entry, of no system
\* package and in a pack of the target version, that the catalog lacks.
C13_Witness ==
    /\ CommitCompleted
    /\ disk # disk0
    /\ \E q \in EntryPositions :
          /\ EntryAt(q[1], q[2]).name \notin DOMAIN mods_index
          /\ EntryAt(q[1], q[2]).name \notin SYSTEM_MODS
          /\ EntryAt(q[1], q[2]).enabled
          /\ PackMatches(disk0[q[1]], factorio_version)

\* A first-hop answer that is a redirect with a Location header.
GoodRedirect(r) == r # <<>> /\ r[1] \in RedirectStatuses /\ r[2] # <<>>

\* C14: download_mod makes its second request only after the first hop
\* answered 301, 302, 303, 307 or 308 with a Location header; the request
\* goes to that Location and carries neither the username nor the token.
\* After any other first-hop outcome no second request is made, the attempt
\* fails and no file is recorded as downloaded.
C14_SecondHopOnlyAfterRedirect ==
    [][/\ (pc = "hop1" /\ pc' = "hop2") => GoodRedirect(first')
       /\ cdn_requests' # cdn_requests
             => /\ pc = "hop2"
                /\ GoodRedirect(first)
                /\ cdn_requests' = Append(cdn_requests, first[2][1])
                /\ username \notin Range(first[2][1])
                /\ token \notin Range(first[2][1])
       /\ (pc = "hop1" /\ ~GoodRedirect(first'))
             => /\ pc' # "hop2"
                /\ cdn_requests' = cdn_requests
                /\ last' \notin {"ok", "none"}
                /\ downloaded_files' = downloaded_files
                /\ successful' = successful
                /\ tmp_files' = tmp_files]_vars

\* A redirect without Location just answered, after an earlier attempt had
\* made its second request.
C14_Witness ==
    /\ cdn_requests # <<>>
    /\ first # <<>>
    /\ first[1] \in RedirectStatuses
    /\ first[2] = <<>>
    /\ last = "RuntimeError"
    /\ pc = "loop"

\* Some entry of pack p has another version or sha1 in the manifest file than
\* when the run started.
PackValuesChanged(p) ==
    \E m \in 1..Len(disk0[p].mods) :
        \/ disk[p].mods[m].version # disk0[p].mods[m].version
        \/ disk[p].mods[m].sha1 # disk0[p].mods[m].sha1

\* C15: apply_updates returns the number of packs in which the version or
\* sha1 of at least one entry actually changed, and sets updated_at_ms on
\* exactly those packs.
C15_CountsPacksThatChanged ==
    CommitCompleted =>
        /\ updated_packs(disk0, successful)
              = Cardinality({p \in 1..Len(disk0) : PackValuesChanged(p)})
        /\ \A p \in 1..Len(disk0) :
              (disk[p].updated_at_ms # disk0[p].updated_at_ms) <=> PackValuesChanged(p)

\* The entry may be updated in this run: it is enabled, of no system package,
\* and its pack is of the target version.
MayBeUpdated(p, m) ==
    /\ EntryAt(p, m).enabled
    /\ EntryAt(p, m).name \notin SYSTEM_MODS
    /\ PackMatches(disk0[p], factorio_version)

\* C16: the commit changes the version and sha1 only of entries that are
\* enabled, of no system package and in a pack of the target version; any
\* other entry keeps its version and sha1, and a pack with no such entry
\* keeps its updated_at_ms, also when another entry of the same name was
\* updated elsewhere in the manifest.
C16_OnlyEligibleEntriesChange ==
    \A p \in 1..Len(disk0) :
        /\ \A m \in 1..Len(disk0[p].mods) :
              ~MayBeUpdated(p, m)
                  => /\ disk[p].mods[m].version = disk0[p].mods[m].version
                     /\ disk[p].mods[m].sha1 = disk0[p].mods[m].sha1
        /\ (\A m \in 1..Len(disk0[p].mods) : ~MayBeUpdated(p, m))
              => disk[p].updated_at_ms = disk0[p].updated_at_ms

\* C17: in every state, a package whose new version/sha1 the manifest file
\* records has its artifact in the live directory: the manifest is written
\* only after the download loop is over and every downloaded file is moved,
\* and a failed move prevents the write.
C17_ManifestRecordsOnlyPlacedArtifacts ==
    /\ \A p \in 1..Len(disk0) : \A m \in 1..Len(disk0[p].mods) :
          (\/ disk[p].mods[m].version # disk0[p].mods[m].version
           \/ disk[p].mods[m].sha1 # disk0[p].mods[m].sha1)
              => /\ disk[p].mods[m].name \in DOMAIN successful
                 /\ successful[disk[p].mods[m].name].file_name \in mods_dir
                 /\ mods_index[disk[p].mods[m].name].file_name \in mods_dir
    /\ disk # disk0
          => /\ i > Len(updates)
             /\ \A f \in FileNames : f \in Range(downloaded_files) => f \in mods_dir
             /\ raised = <<>>
    /\ (raised # <<>> /\ raised[2] = "shutil.move") => disk = disk0 /\ archive = <<>>

\* A committed run that moved two files.
C17_Witness ==
    /\ CommitCompleted
    /\ disk # disk0
    /\ Cardinality(mods_dir) = 2

\* C18: every step that changes the live directory adds exactly one file,
\* which was not there yet (a file name is moved at most once), which is the
\* entry of downloaded_files being moved, and whose scratch copy was written
\* completely by a second hop that succeeded; a partially written scratch
\* file is never in the live directory.
C18_OnlyCompletedDownloadsAreMoved ==
    [][/\ mods_dir' # mods_dir
            => \E f \in FileNames :
                  /\ f \notin mods_dir
                  /\ mods_dir' = mods_dir \cup {f}
                  /\ f \in DOMAIN tmp_files
                  /\ tmp_files[f] = "full"
                  /\ f = downloaded_files[mv]
                  /\ \A k \in 1..Len(downloaded_files) : downloaded_files[k] = f => k = mv
       /\ mv' # mv => mods_dir' # mods_dir
       /\ \A f \in DOMAIN tmp_files : tmp_files[f] = "partial" => f \notin mods_dir'
      ]_vars

\* One file is moved while another, left partial by a failed attempt, stays
\* in the scratch directory.
C18_Witness ==
    /\ mods_dir # {}
    /\ \E f \in DOMAIN tmp_files : tmp_files[f] = "partial"

EligiblePositions == {q \in EntryPositions : Eligible(q[1], q[2])}

\* Pack iteration order, then mod iteration order.
Before(q, r) == q[1] < r[1] \/ (q[1] = r[1] /\ q[2] < r[2])

\* C19: the plan is the list of the eligible entries in pack iteration order
\* and, within a pack, mod iteration order, one item per entry and none
\* dropped for sharing a package name: the k-th item is made of the eligible
\* entry that has k - 1 eligible entries before it, and a package listed once
\* in each of k eligible packs as a stale enabled entry has exactly k items.
C19_PlanInIterationOrderNoDedup ==
    Planned =>
        /\ Len(updates) = Cardinality(EligiblePositions)
        /\ \A k \in 1..Len(updates) :
              \E q \in EligiblePositions :
                 /\ Cardinality({r \in EligiblePositions : Before(r, q)}) = k - 1
                 /\ updates[k] = PlanItem(disk0[q[1]], EntryAt(q[1], q[2]),
                                          mods_index[EntryAt(q[1], q[2]).name])
        /\ \A n \in {EntryAt(q[1], q[2]).name : q \in EntryPositions} :
              LET items == {k \in 1..Len(updates) : updates[k].mod_name = n}
                  entries == {q \in EligiblePositions : EntryAt(q[1], q[2]).name = n}
                  in_packs == {q[1] : q \in entries}
              IN  /\ Cardinality(items) = Cardinality(entries)
                  /\ (\A q \in entries, r \in entries : q[1] = r[1] => q = r)
                        => Cardinality(items) = Cardinality(in_packs)

\* One package stale and enabled in two eligible packs: two plan items, the
\* first pack's first.
C19_Witness ==
    /\ Planned
    /\ Len(disk0) = 2
    /\ Len(updates) = 2
    /\ updates[1].mod_name = updates[2].mod_name
    /\ updates[1].pack_name = disk0[1].name
    /\ updates[2].pack_name = disk0[2].name
    /\ updates[1].pack_name # updates[2].pack_name

====
